---------------------------- MODULE Spec2Model ----------------------------
(***************************************************************************)
(* HDB resale price predictor (src/app.py).                                *)
(*                                                                         *)
(* The program is one Streamlit script.  Every user interaction (a widget  *)
(* value changed, the button pressed) re-executes the script from top to   *)
(* bottom with the widget values kept by the framework.  One action of     *)
(* this model is one interaction: the widget change followed by the whole  *)
(* script run (historical lookup, age section, prediction, static tail).   *)
(***************************************************************************)
EXTENDS Integers, Sequences, FiniteSets

VARIABLES
    hdb,                    \* contents of hdb.csv as read_csv sees it
    model,                  \* the deserialized model artifact
    current_year,           \* datetime.now().year
    floor_area, flat_type, town, flat_model,      \* widget values
    input_method, year_built, age_input, lease_input,
    cause,                  \* what triggered the last script run
    clicked,                \* value st.button returned in the last run
    recent,                 \* index labels of the rows of `recent`
    recent_display,         \* formatted rows handed to st.dataframe
    flat_age, remaining_lease_years,
    input_df,               \* the frame handed to model.predict
    predict_calls,          \* calls of model.predict in the last run
    rendered,               \* page sections rendered by the last run
    messages,               \* st.info / st.warning / exception boxes shown
    stopped_at              \* "end" or the place an uncaught exception left

envVars == <<hdb, model, current_year>>
widgetVars == <<floor_area, flat_type, town, flat_model,
                input_method, year_built, age_input, lease_input>>
runVars == <<cause, clicked, recent, recent_display, flat_age,
             remaining_lease_years, input_df, predict_calls, rendered,
             messages, stopped_at>>
vars == <<envVars, widgetVars, runVars>>

-----------------------------------------------------------------------------
(* Bounds of the model *)

\* longest hdb.csv enumerated by the lookup specification
MaxRows == 6
\* longest feature_names_in_ enumerated by the reindex specification
MaxFeatures == 4
\* earliest and latest value of datetime.now().year that is explored
ThisYear == 2026
LastYear == 2061

(* Program constants *)

FloorAreaMin == 30
FloorAreaMax == 200
FloorAreaDefault == 75
YearBuiltMin == 1960
YearBuiltDefault == 2000
LeaseTerm == 99
LeaseFloor == 1
FlatAgeMin == 0
FlatAgeMax == 60
FlatAgeDefault == 25
RemainingLeaseMin == 1
RemainingLeaseMax == 99
RemainingLeaseDefault == 70
HeadCount == 5
FillValue == 0

YearBuiltMode == "Year Built"
ManualMode == "Manual Input"
InputMethods == <<YearBuiltMode, ManualMode>>

\* a sample of the option lists, each in the order the selectbox shows it
\* (index 0 is the default of a selectbox)
FlatTypes == <<"1 ROOM", "4 ROOM">>
Towns == <<"ANG MO KIO", "BEDOK">>
FlatModels == <<"2-room", "Improved">>

SeqRange(s) == {s[i] : i \in DOMAIN s}
BoundedSeq(S, n) == UNION {[1..k -> S] : k \in 0..n}

-----------------------------------------------------------------------------
(* Values of a data frame cell: a number or a string *)

Num(n) == [kind |-> "num", n |-> n, s |-> ""]
Str(s) == [kind |-> "str", n |-> 0, s |-> s]


-----------------------------------------------------------------------------
(* hdb.csv.  A readable file is a set of column names and a sequence of    *)
(* rows; the position of a row is its index label in the data frame.  The  *)
(* month cell is the text "y-m" kept as the pair [y, m]; the price cell is *)
(* a float kept in tenths, or NaN.                                         *)

DisplayColumns == {"block", "street_name", "flat_model", "flat_type",
                   "floor_area_sqm", "resale_price"}
AllColumns == DisplayColumns \cup {"town", "month"}

Month(y, m) == [y |-> y, m |-> m]
Price(tenths) == [nan |-> FALSE, tenths |-> tenths]
NaN == [nan |-> TRUE, tenths |-> 0]
Row(t, mo, p) == [town |-> t, month |-> mo, resale_price |-> p]
Csv(cols, rows) == [readable |-> TRUE, columns |-> cols, rows |-> rows]
Unreadable == [readable |-> FALSE, columns |-> {}, rows |-> <<>>]

\* pd.to_datetime(..., errors='coerce'): the month as a count of months, or
\* NaT when the text names no calendar month
NaT == -1
ParseMonth(raw) ==
    IF raw.m >= 1 /\ raw.m <= 12 /\ raw.y >= 1
    THEN raw.y * 12 + (raw.m - 1)
    ELSE NaT

ToDatetime(rows) == [i \in DOMAIN rows |-> ParseMonth(rows[i].month)]

Index(rows) == [i \in 1..Len(rows) |-> i]

\* df_hdb[df_hdb['town'] == town]
TownEquals(cell, t) == cell = t
FilterTown(rows, t) ==
    LET keep(i) == TownEquals(rows[i].town, t)
    IN  SelectSeq(Index(rows), keep)

\* mutant: the rows with NaT are kept
DropNaKeepsAll(idx, month) == idx
\* .dropna(subset=['month'])
DropNa(idx, month) ==
    LET keep(i) == month[i] # NaT
    IN  SelectSeq(idx, keep)

\* mutant: ascending order
ComesBeforeAscending(a, b) == b = NaT \/ (a # NaT /\ a <= b)
\* .sort_values('month', ascending=False): latest month first, NaT last
ComesBefore(a, b) == b = NaT \/ (a # NaT /\ a >= b)
Without(s, p) == SubSeq(s, 1, p - 1) \o SubSeq(s, p + 1, Len(s))
\* the positions of idx whose row may stand first in the sorted frame
Foremost(idx, month) ==
    {p \in DOMAIN idx :
        \A q \in DOMAIN idx : ComesBefore(month[idx[p]], month[idx[q]])}
\* The default sort of sort_values is quicksort, which is not stable: rows
\* of equal month come out in an order the call does not determine.  The
\* operator is the set of the frames the call may return.
RECURSIVE SortValues(_, _)
SortValues(idx, month) ==
    IF idx = <<>> THEN {<<>>}
    ELSE UNION {{<<idx[p]>> \o rest :
                    rest \in SortValues(Without(idx, p), month)} :
                p \in Foremost(idx, month)}

\* .head(5)
HeadRows(idx) == SubSeq(idx, 1, IF Len(idx) < HeadCount THEN Len(idx) ELSE HeadCount)

\* lines 69-74: the frames `recent` may be
Recent(rows, t) ==
    {HeadRows(sorted) :
        sorted \in SortValues(DropNa(FilterTown(rows, t), ToDatetime(rows)),
                              ToDatetime(rows))}

\* int(x): the integer part, truncated toward zero
IntPart(tenths) ==
    IF tenths >= 0 THEN tenths \div 10 ELSE 0 - ((0 - tenths) \div 10)
\* f"{n:,}": the digits of |n| in groups of three, the sign on the first
RECURSIVE ThousandsGroups(_)
ThousandsGroups(n) ==
    IF n < 0
    THEN LET g == ThousandsGroups(0 - n) IN <<0 - g[1]>> \o Tail(g)
    ELSE IF n < 1000 THEN <<n>>
    ELSE ThousandsGroups(n \div 1000) \o <<n % 1000>>
\* f"${int(x):,}"
FormatPrice(p) == ThousandsGroups(IntPart(p.tenths))

\* lines 82-95: the display frame, re-indexed from 1
RecentDisplay(rows, rec) ==
    [k \in 1..Len(rec) |-> FormatPrice(rows[rec[k]].resale_price)]

\* The body of the try block, lines 64-102: the exception it raises (or
\* "none"), what it put on the page before that, and the frames it built.
\* HistoricalLookup is the set of its outcomes, one for each frame the sort
\* may return.
LookupResult(exc, rec, disp, shown, msgs) ==
    [exc |-> exc, recent |-> rec, display |-> disp, shown |-> shown,
     messages |-> msgs]
\* lines 75-102, once `recent` is rec
ShowRecent(h, rec) ==
    IF rec = <<>>
    THEN LookupResult("none", rec, <<>>, {}, {"info: no recent transactions"})
    ELSE IF ~(DisplayColumns \subseteq h.columns)
    THEN LookupResult("KeyError", rec, <<>>, {"recent_expander"}, {})
    ELSE IF \E k \in DOMAIN rec : h.rows[rec[k]].resale_price.nan
    THEN LookupResult("ValueError", rec, <<>>, {"recent_expander"}, {})
    ELSE LookupResult("none", rec, RecentDisplay(h.rows, rec),
                      {"recent_expander", "recent_table"}, {})
HistoricalLookup(h, t) ==
    IF ~h.readable
    THEN {LookupResult("FileNotFoundError", <<>>, <<>>, {}, {})}
    ELSE IF "month" \notin h.columns
    THEN {LookupResult("none", <<>>, <<>>, {}, {})}
    ELSE IF "town" \notin h.columns
    THEN {LookupResult("KeyError", <<>>, <<>>, {}, {})}
    ELSE {ShowRecent(h, rec) : rec \in Recent(h.rows, t)}

\* mutant: a handler for file errors only
ExceptFileErrors(exc) == exc = "FileNotFoundError"
\* except Exception as e (line 103)
Exceptions == {"FileNotFoundError", "KeyError", "ValueError", "AttributeError",
               "ModelError"}
ExceptException(exc) == exc \in Exceptions

-----------------------------------------------------------------------------
(* Widgets *)

\* mutant: no range on the number input
NumberInputUnbounded(lo, hi, v) == TRUE
\* st.number_input(min_value, max_value): an entry outside the range is not
\* taken as the widget's value
NumberInputAccepts(lo, hi, v) == lo <= v /\ v <= hi
\* st.slider(min_value, max_value)
SliderAccepts(lo, hi, v) == lo <= v /\ v <= hi
\* mutant: a control that stays on after it was used
ButtonStaysOn(cs) == cs # "load"
\* st.button: True only in the run that the press of the button triggered
Button(cs) == cs = "button"

Widgets(fa, ft, t, fm, im, yb, ai, li) ==
    [floor_area |-> fa, flat_type |-> ft, town |-> t, flat_model |-> fm,
     input_method |-> im, year_built |-> yb, age_input |-> ai,
     lease_input |-> li]
DefaultWidgets ==
    Widgets(FloorAreaDefault, FlatTypes[1], Towns[1], FlatModels[1],
            InputMethods[1], YearBuiltDefault, FlatAgeDefault,
            RemainingLeaseDefault)

-----------------------------------------------------------------------------
(* Age & lease section, lines 118-141 *)

Max(a, b) == IF a >= b THEN a ELSE b

DerivedAge(cy, yb) == cy - yb
\* mutant: no floor on the derived lease
DerivedLeaseNoFloor(age) == LeaseTerm - age
DerivedLease(age) == Max(LeaseFloor, LeaseTerm - age)

FlatAge(cy, w) ==
    IF w.input_method = YearBuiltMode
    THEN DerivedAge(cy, w.year_built)
    ELSE w.age_input
\* mutant: the lease is derived from the age in both modes
RemainingLeaseMerged(cy, w) ==
    Max(LeaseFloor, LeaseTerm - FlatAge(cy, w))
RemainingLease(cy, w) ==
    IF w.input_method = YearBuiltMode
    THEN DerivedLease(DerivedAge(cy, w.year_built))
    ELSE w.lease_input

-----------------------------------------------------------------------------
(* Prediction, lines 146-161.  A frame of one row is the sequence of its   *)
(* columns, each a name and the cell under it.                             *)

Col(name, value) == [name |-> name, value |-> value]
CanonicalNames == <<"floor_area_sqm", "flat_age", "remaining_lease_years",
                    "flat_type", "town", "flat_model">>

\* pd.DataFrame({...}), lines 148-155
InputDf(w, age, lease) ==
    << Col("floor_area_sqm", Num(w.floor_area)),
       Col("flat_age", Num(age)),
       Col("remaining_lease_years", Num(lease)),
       Col("flat_type", Str(w.flat_type)),
       Col("town", Str(w.town)),
       Col("flat_model", Str(w.flat_model)) >>

\* mutant: unexpected columns dropped, nothing filled or reordered
ReindexSelectOnly(df, names) ==
    LET expected(c) == \E k \in DOMAIN names : names[k] = c.name
    IN  SelectSeq(df, expected)
\* input_df.reindex(columns=names, fill_value=0), line 158
Reindex(df, names) ==
    [k \in 1..Len(names) |->
        IF \E j \in DOMAIN df : df[j].name = names[k]
        THEN df[CHOOSE j \in DOMAIN df : df[j].name = names[k]]
        ELSE Col(names[k], Num(FillValue))]

\* the model artifact: feature_names_in_ (declared only when the model was
\* fitted on named columns) and whether predict raises on the row
Model(declared, names, raises) ==
    [declared |-> declared, names |-> names, raises |-> raises]

\* where an exception of the prediction block leaves the script: it has no
\* handler, so the run stops at the statement that raised
PredictionStop(m) ==
    IF ~m.declared THEN "reindex"
    ELSE IF m.raises THEN "predict"
    ELSE "end"

-----------------------------------------------------------------------------
(* One run of the script, lines 17-226 *)

Unset == FlatAgeMin - 1

RunAfterLookup(lk, m, cy, w, cs) ==
    LET btn == Button(cs)
        lkRaised == lk.exc # "none"
        lkCaught == lkRaised /\ ExceptException(lk.exc)
        pastLookup == ~lkRaised \/ lkCaught
        age == FlatAge(cy, w)
        lease == RemainingLease(cy, w)
        stop == IF ~pastLookup THEN "lookup"
                ELSE IF btn THEN PredictionStop(m)
                ELSE "end"
        called == pastLookup /\ btn /\ m.declared
        df == IF called THEN Reindex(InputDf(w, age, lease), m.names) ELSE <<>>
    IN  [clicked |-> btn,
         recent |-> lk.recent,
         recent_display |-> lk.display,
         flat_age |-> IF pastLookup THEN age ELSE Unset,
         remaining_lease_years |-> IF pastLookup THEN lease ELSE Unset,
         input_df |-> df,
         predict_calls |-> IF called THEN 1 ELSE 0,
         rendered |->
             {"banner", "property"} \cup lk.shown
             \cup (IF pastLookup THEN {"age", "button"} ELSE {})
             \cup (IF pastLookup /\ btn /\ stop = "end"
                   THEN {"prediction_card", "summary", "disclaimer"} ELSE {})
             \cup (IF stop = "end" THEN {"about", "footer"} ELSE {}),
         messages |->
             lk.messages
             \cup (IF lkCaught THEN {"warning: could not load"} ELSE {})
             \cup (IF pastLookup /\ w.input_method = YearBuiltMode
                   THEN {"info: flat age", "info: remaining lease"} ELSE {})
             \cup (IF stop # "end" THEN {"uncaught exception"} ELSE {}),
         stopped_at |-> stop]

\* the runs the script may make: one for each outcome of the lookup
Run(h, m, cy, w, cs) ==
    {RunAfterLookup(lk, m, cy, w, cs) : lk \in HistoricalLookup(h, w.town)}

\* widgets a run did not reach lose their value: the framework keeps the
\* value of a widget only while the script renders it
WidgetState(w, r) ==
    IF r.stopped_at = "lookup"
    THEN [w EXCEPT !.input_method = InputMethods[1],
                   !.year_built = YearBuiltDefault,
                   !.age_input = FlatAgeDefault,
                   !.lease_input = RemainingLeaseDefault]
    ELSE IF w.input_method = YearBuiltMode
    THEN [w EXCEPT !.age_input = FlatAgeDefault,
                   !.lease_input = RemainingLeaseDefault]
    ELSE [w EXCEPT !.year_built = YearBuiltDefault]

CurrentWidgets ==
    Widgets(floor_area, flat_type, town, flat_model, input_method,
            year_built, age_input, lease_input)

\* the state after the script ran on widget values w because of cs
Rerun(w, cs) ==
    \E r \in Run(hdb, model, current_year, w, cs) :
    \E k \in {WidgetState(w, r)} :
        /\ floor_area' = k.floor_area
        /\ flat_type' = k.flat_type
        /\ town' = k.town
        /\ flat_model' = k.flat_model
        /\ input_method' = k.input_method
        /\ year_built' = k.year_built
        /\ age_input' = k.age_input
        /\ lease_input' = k.lease_input
        /\ cause' = cs
        /\ clicked' = r.clicked
        /\ recent' = r.recent
        /\ recent_display' = r.recent_display
        /\ flat_age' = r.flat_age
        /\ remaining_lease_years' = r.remaining_lease_years
        /\ input_df' = r.input_df
        /\ predict_calls' = r.predict_calls
        /\ rendered' = r.rendered
        /\ messages' = r.messages
        /\ stopped_at' = r.stopped_at
        /\ UNCHANGED envVars

\* the first load of the page in an environment
FirstLoad(h, m, cy) ==
    \E r \in Run(h, m, cy, DefaultWidgets, "load") :
    \E k \in {WidgetState(DefaultWidgets, r)} :
        /\ hdb = h /\ model = m /\ current_year = cy
        /\ floor_area = k.floor_area
        /\ flat_type = k.flat_type
        /\ town = k.town
        /\ flat_model = k.flat_model
        /\ input_method = k.input_method
        /\ year_built = k.year_built
        /\ age_input = k.age_input
        /\ lease_input = k.lease_input
        /\ cause = "load"
        /\ clicked = r.clicked
        /\ recent = r.recent
        /\ recent_display = r.recent_display
        /\ flat_age = r.flat_age
        /\ remaining_lease_years = r.remaining_lease_years
        /\ input_df = r.input_df
        /\ predict_calls = r.predict_calls
        /\ rendered = r.rendered
        /\ messages = r.messages
        /\ stopped_at = r.stopped_at

-----------------------------------------------------------------------------
(* Interactions *)

FloorAreaEntries == {FloorAreaMin - 1, FloorAreaMin, FloorAreaDefault,
                     FloorAreaMax, FloorAreaMax + 1}
AgeEntries == {FlatAgeMin - 1, FlatAgeMin, FlatAgeDefault, FlatAgeMax,
               FlatAgeMax + 1}
LeaseEntries == {RemainingLeaseMin - 1, RemainingLeaseMin,
                 RemainingLeaseDefault, RemainingLeaseMax,
                 RemainingLeaseMax + 1}
YearEntries == {YearBuiltMin - 1, YearBuiltMin, YearBuiltDefault,
                current_year, current_year + 1}
AllYears == (YearBuiltMin - 1)..(current_year + 1)

SetFloorArea(v) ==
    /\ NumberInputAccepts(FloorAreaMin, FloorAreaMax, v)
    /\ v # floor_area
    /\ Rerun([CurrentWidgets EXCEPT !.floor_area = v], "floor_area")

SetFlatType(v) ==
    /\ v # flat_type
    /\ Rerun([CurrentWidgets EXCEPT !.flat_type = v], "flat_type")

SetTown(v) ==
    /\ v # town
    /\ Rerun([CurrentWidgets EXCEPT !.town = v], "town")

SetFlatModel(v) ==
    /\ v # flat_model
    /\ Rerun([CurrentWidgets EXCEPT !.flat_model = v], "flat_model")

SetInputMethod(v) ==
    /\ v # input_method
    /\ Rerun([CurrentWidgets EXCEPT !.input_method = v], "input_method")

SetYearBuilt(v) ==
    /\ input_method = YearBuiltMode
    /\ SliderAccepts(YearBuiltMin, current_year, v)
    /\ v # year_built
    /\ Rerun([CurrentWidgets EXCEPT !.year_built = v], "year_built")

SetFlatAge(v) ==
    /\ input_method = ManualMode
    /\ NumberInputAccepts(FlatAgeMin, FlatAgeMax, v)
    /\ v # age_input
    /\ Rerun([CurrentWidgets EXCEPT !.age_input = v], "flat_age")

SetRemainingLease(v) ==
    /\ input_method = ManualMode
    /\ NumberInputAccepts(RemainingLeaseMin, RemainingLeaseMax, v)
    /\ v # lease_input
    /\ Rerun([CurrentWidgets EXCEPT !.lease_input = v], "remaining_lease")

ClickPredict ==
    /\ "button" \in rendered
    /\ Rerun(CurrentWidgets, "button")

-----------------------------------------------------------------------------
(* Environments *)

GoodPrice == Price(3000000)
SampleRows ==
    << Row("BEDOK", Month(2022, 12), GoodPrice),
       Row("ANG MO KIO", Month(2023, 1), Price(4528754)),
       Row("BEDOK", Month(2023, 13), GoodPrice),
       Row("BEDOK", Month(2023, 1), Price(4500000)),
       Row("bedok", Month(2024, 6), GoodPrice) >>
NanRows ==
    << Row("BEDOK", Month(2023, 1), NaN),
       Row("ANG MO KIO", Month(2023, 1), GoodPrice) >>
Datasets ==
    { Unreadable,
      Csv(AllColumns, <<>>),
      Csv(AllColumns, SampleRows),
      Csv(AllColumns, NanRows),
      Csv(AllColumns \ {"month"}, SampleRows),
      Csv(AllColumns \ {"town"}, SampleRows),
      Csv(AllColumns \ {"block"}, SampleRows) }

FeatureLists ==
    { CanonicalNames,
      <<"town", "flat_model", "flat_type", "remaining_lease_years",
        "flat_age", "floor_area_sqm">>,
      <<"floor_area_sqm", "flat_age", "remaining_lease_years",
        "town_BEDOK", "flat_type_4 ROOM">> }
Models ==
    {Model(TRUE, n, r) : n \in FeatureLists, r \in BOOLEAN}
    \cup {Model(FALSE, <<>>, FALSE)}

Init ==
    \E h \in Datasets, m \in Models, cy \in {ThisYear, LastYear} :
        FirstLoad(h, m, cy)

Next ==
    \/ \E v \in FloorAreaEntries : SetFloorArea(v)
    \/ \E v \in SeqRange(FlatTypes) : SetFlatType(v)
    \/ \E v \in SeqRange(Towns) : SetTown(v)
    \/ \E v \in SeqRange(FlatModels) : SetFlatModel(v)
    \/ \E v \in SeqRange(InputMethods) : SetInputMethod(v)
    \/ \E v \in YearEntries : SetYearBuilt(v)
    \/ \E v \in AgeEntries : SetFlatAge(v)
    \/ \E v \in LeaseEntries : SetRemainingLease(v)
    \/ ClickPredict

Spec == Init /\ [][Next]_vars

\* Historical lookup over every hdb.csv of at most MaxRows rows
LookupMonths == {Month(2022, 12), Month(2023, 1), Month(2023, 13)}
LookupRows ==
    {Row("BEDOK", mo, GoodPrice) : mo \in LookupMonths}
    \cup {Row("bedok", Month(2024, 6), GoodPrice)}

InitLookup ==
    \E rows \in BoundedSeq(LookupRows, MaxRows) :
        FirstLoad(Csv(AllColumns, rows), Model(TRUE, CanonicalNames, FALSE),
                  ThisYear)

NextLookup == \E v \in SeqRange(Towns) : SetTown(v)

SpecLookup == InitLookup /\ [][NextLookup]_vars

\* Reindexing against every feature list of at most MaxFeatures names
FeatureNames == SeqRange(CanonicalNames) \cup {"town_BEDOK"}

InitReindex ==
    \E names \in BoundedSeq(FeatureNames, MaxFeatures) :
        FirstLoad(Csv(AllColumns, SampleRows), Model(TRUE, names, FALSE),
                  ThisYear)

NextReindex ==
    \/ \E v \in FloorAreaEntries : SetFloorArea(v)
    \/ \E v \in SeqRange(Towns) : SetTown(v)
    \/ ClickPredict

SpecReindex == InitReindex /\ [][NextReindex]_vars

\* The age section over every year of the slider
InitAge ==
    \E cy \in ThisYear..LastYear :
        FirstLoad(Csv(AllColumns, SampleRows),
                  Model(TRUE, CanonicalNames, FALSE), cy)

NextAge ==
    \/ \E v \in AllYears : SetYearBuilt(v)
    \/ \E v \in SeqRange(InputMethods) : SetInputMethod(v)
    \/ ClickPredict

SpecAge == InitAge /\ [][NextAge]_vars

-----------------------------------------------------------------------------
(* Properties *)

Parseable(raw) == raw.m \in 1..12
Later(a, b) == a.y > b.y \/ (a.y = b.y /\ a.m > b.m)
MatchingRows ==
    {i \in DOMAIN hdb.rows :
        hdb.rows[i].town = town /\ Parseable(hdb.rows[i].month)}
RecentRows == {recent[k] : k \in DOMAIN recent}

\* C1: the lookup result is the min(5, n) most recent of the n rows of the
\* selected town (exact spelling) whose month parses: at most 5 rows, each
\* of that town, latest month first, and no row left out is strictly later
\* than a row kept.
C1_RecentIsLatestFive ==
    /\ Len(recent) = (IF Cardinality(MatchingRows) < 5
                      THEN Cardinality(MatchingRows) ELSE 5)
    /\ RecentRows \subseteq MatchingRows
    /\ \A j, k \in DOMAIN recent :
          j < k => /\ recent[j] # recent[k]
                   /\ ~Later(hdb.rows[recent[k]].month,
                             hdb.rows[recent[j]].month)
    /\ \A i \in MatchingRows \ RecentRows : \A k \in DOMAIN recent :
          ~Later(hdb.rows[i].month, hdb.rows[recent[k]].month)

\* more than five rows match, the earliest of them comes first in the
\* file, and the table holds five rows of at least two different months
C1_Witness ==
    /\ town = "BEDOK"
    /\ Cardinality(MatchingRows) > 5
    /\ 1 \in MatchingRows \ RecentRows
    /\ Len(recent) = 5
    /\ "recent_table" \in rendered
    /\ hdb.rows[recent[1]].month # hdb.rows[recent[5]].month

\* C7: a row whose month does not parse is never in the lookup result, at
\* either end or anywhere else, also when fewer than five rows remain, and
\* its presence brings no warning and no error.
C7_UnparseableExcluded ==
    /\ \A k \in DOMAIN recent : Parseable(hdb.rows[recent[k]].month)
    /\ (\E i \in DOMAIN hdb.rows : ~Parseable(hdb.rows[i].month))
          => /\ "warning: could not load" \notin messages
             /\ "uncaught exception" \notin messages
             /\ stopped_at = "end"

\* a row of the selected town has an unparseable month, fewer than five
\* parseable ones match, and the table is shown without it
C7_Witness ==
    /\ town = "BEDOK"
    /\ \E i \in DOMAIN hdb.rows :
          hdb.rows[i].town = town /\ ~Parseable(hdb.rows[i].month)
    /\ Cardinality(MatchingRows) \in 1..4
    /\ Len(recent) = Cardinality(MatchingRows)
    /\ "recent_table" \in rendered

\* the cell the record handed to predict has to hold under a name
ExpectedCell(name) ==
    CASE name = "floor_area_sqm" -> Num(floor_area)
      [] name = "flat_age" -> Num(flat_age)
      [] name = "remaining_lease_years" -> Num(remaining_lease_years)
      [] name = "flat_type" -> Str(flat_type)
      [] name = "town" -> Str(town)
      [] name = "flat_model" -> Str(flat_model)
      [] OTHER -> Num(0)

\* C2: the record passed to predict has exactly the columns of the model's
\* feature list, in its order; a canonical name carries the collected
\* value, any other name carries 0, and no canonical name outside the list
\* is present.
C2_RecordFollowsFeatureList ==
    predict_calls = 1 =>
        /\ Len(input_df) = Len(model.names)
        /\ \A k \in DOMAIN input_df :
              /\ input_df[k].name = model.names[k]
              /\ input_df[k].value = ExpectedCell(model.names[k])
        /\ \A c \in SeqRange(CanonicalNames) :
              c \notin SeqRange(model.names)
                  => \A k \in DOMAIN input_df : input_df[k].name # c

\* predict got a record whose list starts with a foreign name, holds
\* canonical names out of their canonical order and lacks "town"
C2_Witness ==
    /\ predict_calls = 1
    /\ Len(model.names) >= 3
    /\ model.names[1] = "town_BEDOK"
    /\ model.names[2] = "flat_model"
    /\ model.names[3] = "floor_area_sqm"
    /\ "town" \notin SeqRange(model.names)
    /\ floor_area # FloorAreaDefault
    /\ input_df[1].value = Num(0)
    /\ input_df[3].value = Num(floor_area)

FieldChanges == {"floor_area", "flat_type", "town", "flat_model",
                 "input_method", "year_built", "flat_age", "remaining_lease"}

\* C3: predict is invoked only in an interaction in which the trigger was
\* activated, at most once in it, and never in an interaction caused by the
\* change of an input field.
C3_PredictOnlyOnTrigger ==
    /\ predict_calls \in {0, 1}
    /\ predict_calls = 1 => (cause = "button" /\ clicked)
    /\ cause \in FieldChanges \cup {"load"} => (predict_calls = 0 /\ ~clicked)

\* predict ran once in a triggered interaction
C3_Witness ==
    /\ cause = "button"
    /\ predict_calls = 1
    /\ floor_area # FloorAreaDefault
    /\ input_method = ManualMode

PredictionFails == ~model.declared \/ model.raises

\* C4: a failure of feature alignment or of predict in a triggered
\* interaction is caught and shown, and the run reaches the end of the page.
C4_PredictionFailureCaught ==
    (clicked /\ PredictionFails) =>
        /\ stopped_at = "end"
        /\ {"about", "footer"} \subseteq rendered

LookupFails ==
    \/ ~hdb.readable
    \/ /\ hdb.readable
       /\ "month" \in hdb.columns
       /\ \/ "town" \notin hdb.columns
          \/ /\ recent # <<>>
             /\ \/ ~(DisplayColumns \subseteq hdb.columns)
                \/ \E k \in DOMAIN recent :
                      hdb.rows[recent[k]].resale_price.nan

ExpectedAge ==
    IF input_method = YearBuiltMode THEN current_year - year_built
    ELSE age_input
ExpectedLease ==
    IF input_method = ManualMode THEN lease_input
    ELSE IF 99 - (current_year - year_built) >= 1
         THEN 99 - (current_year - year_built) ELSE 1

\* C5: whatever fails in the historical lookup (file missing or unreadable,
\* column absent, price that cannot be formatted), the run goes on past it:
\* the age and lease inputs are collected and, on the trigger, predict gets
\* the record of the collected inputs and its result is shown.
C5_LookupFailureDoesNotBlock ==
    LookupFails =>
        /\ stopped_at # "lookup"
        /\ "age" \in rendered
        /\ flat_age = ExpectedAge
        /\ remaining_lease_years = ExpectedLease
        /\ (clicked /\ model.declared) =>
              /\ predict_calls = 1
              /\ \A k \in DOMAIN input_df :
                    input_df[k].value = ExpectedCell(input_df[k].name)
        /\ (clicked /\ ~PredictionFails) => "prediction_card" \in rendered

\* the expander was opened, a price could not be formatted, and the
\* prediction of the same run is on the page
C5_Witness ==
    /\ LookupFails
    /\ hdb.readable
    /\ recent # <<>>
    /\ "warning: could not load" \in messages
    /\ clicked
    /\ predict_calls = 1
    /\ input_method = ManualMode
    /\ "prediction_card" \in rendered

\* C6: whenever no transactions table is shown, a message about it is
\* shown: file missing or unreadable, column absent (the month column
\* included), no parseable row of the town.
C6_NoTableMeansMessage ==
    "recent_table" \notin rendered =>
        messages \cap {"info: no recent transactions",
                       "warning: could not load"} # {}

\* C8: in Year Built mode the year is in [1960, Y], flat_age is
\* Y - yearBuilt and remaining_lease_years is max(1, 99 - (Y - yearBuilt)),
\* in the script and in the record handed to predict.
C8_YearBuiltDerivation ==
    input_method = YearBuiltMode =>
        /\ year_built \in 1960..current_year
        /\ flat_age = current_year - year_built
        /\ remaining_lease_years =
              (IF 99 - (current_year - year_built) >= 1
               THEN 99 - (current_year - year_built) ELSE 1)
        /\ \A k \in DOMAIN input_df :
              /\ input_df[k].name = "flat_age"
                    => input_df[k].value = Num(current_year - year_built)
              /\ input_df[k].name = "remaining_lease_years"
                    => input_df[k].value = Num(remaining_lease_years)

\* a flat older than the lease term: the derived lease is held at 1 and
\* goes into the record
C8_Witness ==
    /\ input_method = YearBuiltMode
    /\ current_year - year_built > 99
    /\ remaining_lease_years = 1
    /\ predict_calls = 1
    /\ \E k \in DOMAIN input_df :
          input_df[k].name = "remaining_lease_years"
          /\ input_df[k].value = Num(1)

\* C9: one age-input mode is active in every interaction and flat_age and
\* remaining_lease_years come from it alone: in Manual mode the entered
\* values, in Year Built mode the values derived from the year.
C9_ModesExclusive ==
    /\ input_method \in {YearBuiltMode, ManualMode}
    /\ input_method = ManualMode =>
          /\ flat_age = age_input
          /\ remaining_lease_years = lease_input
          /\ \A k \in DOMAIN input_df :
                /\ input_df[k].name = "flat_age"
                      => input_df[k].value = Num(age_input)
                /\ input_df[k].name = "remaining_lease_years"
                      => input_df[k].value = Num(lease_input)
    /\ input_method = YearBuiltMode =>
          /\ flat_age = current_year - year_built
          /\ remaining_lease_years =
                (IF 99 - flat_age >= 1 THEN 99 - flat_age ELSE 1)

\* Manual mode, entries that differ from the defaults and from what the
\* year would give, handed to predict unchanged
C9_Witness ==
    /\ input_method = ManualMode
    /\ age_input = 60
    /\ lease_input = 99
    /\ predict_calls = 1
    /\ \E k \in DOMAIN input_df :
          input_df[k].name = "remaining_lease_years"
          /\ input_df[k].value = Num(99)
    /\ \E k \in DOMAIN input_df :
          input_df[k].name = "flat_age" /\ input_df[k].value = Num(60)

\* C10: every record assembled has flat_age >= 0, remaining_lease_years in
\* [1, 99] and floor_area_sqm in [30, 200].
C10_RecordInRange ==
    clicked =>
        /\ flat_age >= 0
        /\ remaining_lease_years >= 1 /\ remaining_lease_years <= 99
        /\ floor_area >= 30 /\ floor_area <= 200

\* a record assembled at the edges of the ranges
C10_Witness ==
    /\ clicked
    /\ floor_area = 200
    /\ input_method = YearBuiltMode
    /\ flat_age > 60
    /\ remaining_lease_years = 1

=============================================================================
